---- MODULE Spec2Model ----
(***************************************************************************)
(* Model of src/main.py: BackupManager (create_zip, cleanup_temp,          *)
(* process_local, process_ftp, run_loop).  One scheduling thread; the      *)
(* variable pc is its position in run_loop and in the store it has called. *)
(* Time is in whole seconds.  datetime.now() and time.time() read the same *)
(* non-decreasing clock.  Every filesystem and FTP call of the stores and  *)
(* of create_zip may fail; cleanup_temp's calls are taken to succeed.      *)
(***************************************************************************)
EXTENDS Integers, Sequences, FiniteSets, TLC

\* ---------------------------------------------------------------- bounds
MaxTime == 20        \* the clock is followed up to this second
MaxRetain == 2       \* configured *_BACKUP_MAX ranges over 0..MaxRetain
MaxInit == 2         \* archives already at a destination at start: 0..MaxInit
ZipSeconds == 1      \* seconds that compressing the source takes
MaxFaults == 2       \* calls of the environment that fail in one run
WallAtZero == 86390  \* wall-clock second at clock 0: 23:59:50 on the 1st

StartClocks == {0, 7}   \* clock values at process start
Intervals == {0, 7}     \* configured intervals, in seconds

\* ------------------------------------------------------------ constants
MinWait == 5         \* max(5, ...) in the wait logic
TimeZero == 0        \* last_local_run = last_ftp_run = 0.0 at construction

\* Python's None, as a result marker and as a path
None == "None"
NoPath == [prefix |-> "", stamp |-> << >>, suffix |-> ""]

\* ---------------------------------------------------------------- names
FormatTimestamp_SecondsFirst(t) ==
    LET d == 1 + (t \div 86400)
        h == (t \div 3600) % 24
        m == (t \div 60) % 60
        s == t % 60
    IN  << s \div 10, s % 10, m \div 10, m % 10, h \div 10, h % 10,
           d \div 10, d % 10 >>

\* strftime("%Y%m%d_%H%M%S") of the wall-clock second t counted from the
\* start of a month: the fields %d, %H, %M, %S, each of fixed width and zero
\* padded, most significant first.  ("%Y%m" and "_" are the same in every
\* name of a run that stays within the month.)
FormatTimestamp(t) ==
    LET d == 1 + (t \div 86400)
        h == (t \div 3600) % 24
        m == (t \div 60) % 60
        s == t % 60
    IN  << d \div 10, d % 10, h \div 10, h % 10, m \div 10, m % 10,
           s \div 10, s % 10 >>

\* datetime.now() when time.time() is t
WallClock(t) == WallAtZero + t

\* f"backup_{timestamp}" and the ".zip" that make_archive appends
ZipName(t) ==
    [prefix |-> "backup_", stamp |-> FormatTimestamp(WallClock(t)), suffix |-> ".zip"]

\* a file that is not an archive: passes startswith but not endswith
OtherFile == [prefix |-> "backup_", stamp |-> << >>, suffix |-> ".txt"]

\* glob("backup_*.zip") and f.startswith("backup_") and f.endswith(".zip")
IsBackup(f) == f.prefix = "backup_" /\ f.suffix = ".zip"

\* str.__lt__ on the part of two names that differs (the stamps)
RECURSIVE LexLess(_, _)
LexLess(a, b) ==
    IF a = << >> THEN b # << >>
    ELSE IF b = << >> THEN FALSE
    ELSE IF Head(a) # Head(b) THEN Head(a) < Head(b)
    ELSE LexLess(Tail(a), Tail(b))

NameLess(f, g) == LexLess(f.stamp, g.stamp)

\* files.sort(): ascending by name
RECURSIVE SortNames(_)
SortNames(S) ==
    IF S = {} THEN << >>
    ELSE LET least == CHOOSE f \in S : \A g \in S \ {f} : NameLess(f, g)
         IN  << least >> \o SortNames(S \ {least})

ByMtime_Descending(S) ==
    { q \in [1..Cardinality(S) -> S] :
        /\ \A i, j \in 1..Cardinality(S) : i # j => q[i] # q[j]
        /\ \A i, j \in 1..Cardinality(S) : i < j => q[i].mtime >= q[j].mtime }

\* sorted(..., key=st_mtime): every order of the directory entries that is
\* ascending by mtime (entries of equal mtime keep the order glob gave them)
ByMtime(S) ==
    { q \in [1..Cardinality(S) -> S] :
        /\ \A i, j \in 1..Cardinality(S) : i # j => q[i] # q[j]
        /\ \A i, j \in 1..Cardinality(S) : i < j => q[i].mtime <= q[j].mtime }

Max(a, b) == IF a >= b THEN a ELSE b
Min(a, b) == IF a <= b THEN a ELSE b

\* ---------------------------------------------------------------- state
VARIABLES
    cfg,             \* BackupConfig
    clock,           \* time.time()
    pc,              \* position of the thread
    last_local_run, last_ftp_run,
    now, do_local, do_ftp, zip_path,       \* locals of run_loop
    temp_dir_exists, temp_files,           \* temp_backups/ and its entries
    local_files,                           \* entries of cfg.local_folder
    ftp_dir_exists, ftp_files,             \* cfg.ftp_folder on the server
    backups,                               \* local of process_local
    files,                                 \* local of process_ftp
    ftp_conn,                              \* control connection open?
    faults,          \* environment failures so far (bounded by MaxFaults)
    \* ---- observation only (never read by the actions' guards)
    first,           \* no pass of the while loop has ended yet
    creates,         \* create_zip calls in this pass
    caught,          \* the handler at line 213 ran in this pass
    handed,          \* zip_path each store was called with in this pass
    result,          \* outcome of each store in this pass
    pre,             \* archives at each destination when its store began
    removed,         \* archives each store's rotation deleted
    stores,          \* successful stores per destination
    failed,          \* has a store of the destination ever failed
    init_count       \* archives at each destination at process start

prog == << cfg, clock, pc, last_local_run, last_ftp_run, now, do_local, do_ftp,
           zip_path, temp_dir_exists, temp_files, local_files, ftp_dir_exists,
           ftp_files, backups, files, ftp_conn, faults >>
obs == << first, creates, caught, handed, result, pre, removed, stores,
          failed, init_count >>
vars == << prog, obs >>

Dest == {"local", "ftp"}

LocalArchives == { e \in local_files : IsBackup(e.name) }
FtpArchives == { f \in ftp_files : IsBackup(f) }
LocalNames == { e.name : e \in LocalArchives }

\* ----------------------------------------------------------------- Init
\* Archives left by earlier runs carry the timestamps just before start;
\* each folder that exists also holds one file that is not an archive.
EarlierLocal(start, c) == { [name |-> ZipName(t), mtime |-> t] : t \in (start - c)..(start - 1) }
EarlierFtp(start, c) == { ZipName(t) : t \in (start - c)..(start - 1) }

\* The max and the interval of a disabled destination are never used (its
\* store returns at once, it is never due, it sets no deadline): one value
\* of each stands for all.
Configs ==
    { c \in [ local_enabled : BOOLEAN, local_max : 0..MaxRetain, local_interval : Intervals,
              ftp_enabled : BOOLEAN, ftp_max : 0..MaxRetain, ftp_interval : Intervals ] :
        /\ ~c.local_enabled => c.local_max = 1 /\ c.local_interval = 0
        /\ ~c.ftp_enabled => c.ftp_max = 1 /\ c.ftp_interval = 0 }

Init ==
    /\ cfg \in Configs
    /\ clock \in StartClocks
    /\ pc = "eval"
    /\ last_local_run = TimeZero
    /\ last_ftp_run = TimeZero
    /\ now = 0 /\ do_local = FALSE /\ do_ftp = FALSE /\ zip_path = NoPath
    /\ temp_dir_exists = FALSE /\ temp_files = {}
    /\ ftp_dir_exists \in BOOLEAN
    /\ \E cl \in 0..MaxInit, cf \in 0..MaxInit :
          /\ cl <= clock /\ cf <= clock
          /\ ~cfg.local_enabled => cl = 0
          /\ ~cfg.ftp_enabled \/ ~ftp_dir_exists => cf = 0
          /\ local_files = EarlierLocal(clock, cl) \cup {[name |-> OtherFile, mtime |-> 0]}
          /\ ftp_files = IF ftp_dir_exists THEN EarlierFtp(clock, cf) \cup {OtherFile} ELSE {}
          /\ init_count = [local |-> cl, ftp |-> cf]
    /\ backups = << >> /\ files = << >>
    /\ ftp_conn = FALSE
    /\ faults = 0
    /\ first = TRUE /\ creates = 0 /\ caught = FALSE
    /\ handed = [d \in Dest |-> NoPath]
    /\ result = [d \in Dest |-> None]
    /\ pre = [d \in Dest |-> {}]
    /\ removed = [d \in Dest |-> {}]
    /\ stores = [d \in Dest |-> 0]
    /\ failed = [d \in Dest |-> FALSE]

\* a call into the filesystem or the server fails / no call fails
Fault == faults < MaxFaults /\ faults' = faults + 1
NoFault == faults' = faults

\* ------------------------------------------------------- code fragments
Due_Strict(enabled, t, last, interval) == enabled /\ (t - last > interval)

\* now - self.last_*_run >= self.cfg.*_interval, guarded by *_enabled
Due(enabled, t, last, interval) == enabled /\ (t - last >= interval)

OverLimit_Gt(n, max) == n > max

OverLimit_Eager(n, max) == n >= max - 1

\* while len(backups) >= self.cfg.local_max / len(files) >= self.cfg.ftp_max
OverLimit(n, max) == n >= max

Oldest_Last(q) == q[Len(q)]

\* backups.pop(0) / files.pop(0): the element taken and the list left
Oldest(q) == Head(q)
PopOldest(q) == Tail(q)

RunStamp_Always(ok, last, t) == t

\* self.last_*_run = time.time() is the last statement of the try block,
\* reached only when the copy / upload did not raise
RunStamp(ok, last, t) == IF ok THEN t ELSE last

LocalExceptTarget_Propagates == "finally"

\* "except Exception" inside process_local returns normally to run_loop,
\* which goes on to "if do_ftp"
LocalExceptTarget == "ftp"

CreateExceptTarget_Uncaught == "raised"

\* "except Exception" at line 213 catches what create_zip raises; control
\* goes through the finally clause and on to the wait logic
CreateExceptTarget == "finally"

Invokes_Always(due) == TRUE

\* if do_local: / if do_ftp: in run_loop
Invokes(due) == due

\* shutil.copy2 / STOR onto an existing name replaces that entry
PutLocal(S, e) == { x \in S : x.name # e.name } \cup {e}

SourceAfterCopy_Move(S, path) == { z \in S : z.name # path }

\* shutil.copy2(zip_path, dest) reads the archive and leaves it in temp_dir
SourceAfterCopy(S, path) == S

WithExit_Leak(conn) == conn

\* leaving "with ftplib.FTP() as ftp", normally or by an exception, runs
\* FTP.__exit__, which quits and closes the connection
WithExit(conn) == FALSE

\* one more successful store (lines 141, 180); the count is kept up to
\* MaxRetain + 1, which is all that any property distinguishes
Counted(n) == IF n <= MaxRetain THEN n + 1 ELSE n

\* next_local / next_ftp: the finite deadline, or none for float('inf')
NextRun(enabled, last, interval) == IF enabled THEN {last + interval} ELSE {}

\* min(next_local, next_ftp): the least finite deadline; {} is float('inf')
MinNext(a, b) == { x \in a \cup b : \A y \in a \cup b : x <= y }

\* max(5, int(min(next_local, next_ftp) - time.time()))
SecondsUntilNext(wake, t) == Max(MinWait, wake - t)

\* ------------------------------------------------------------- run_loop
\* lines 193-197: read the clock, decide which destinations are due
Eval ==
    /\ pc = "eval"
    /\ now' = clock
    /\ do_local' = Due(cfg.local_enabled, clock, last_local_run, cfg.local_interval)
    /\ do_ftp' = Due(cfg.ftp_enabled, clock, last_ftp_run, cfg.ftp_interval)
    /\ pc' = IF do_local' \/ do_ftp' THEN "create" ELSE "wait"
    /\ UNCHANGED << cfg, clock, last_local_run, last_ftp_run, zip_path,
                    temp_dir_exists, temp_files, local_files, ftp_dir_exists,
                    ftp_files, backups, files, ftp_conn, faults, obs >>

\* lines 198-205 and create_zip (103-113).  The name is taken from the clock
\* before compressing; compressing takes ZipSeconds.  Outcomes:
\*   "ok"      the archive is written and its path returned
\*   "mkdir"   temp_dir.mkdir raises (only when the directory is missing)
\*   "write"   make_archive raises before any file exists
\*   "partial" make_archive or stat raises with a file left in temp_dir
\* A raise is caught at line 213 with zip_path still None.
CreateZipTo(done) ==
    /\ pc = "create"
    /\ \E out \in {"ok", "mkdir", "write", "partial"} :
         LET zip == [name |-> ZipName(clock), mtime |-> done] IN
         /\ out = "mkdir" => ~temp_dir_exists
         /\ IF out = "ok" THEN NoFault ELSE Fault
         /\ clock' = done
         /\ creates' = creates + 1
         /\ temp_dir_exists' = IF out = "mkdir" THEN temp_dir_exists ELSE TRUE
         /\ temp_files' = IF out \in {"ok", "partial"} THEN PutLocal(temp_files, zip)
                          ELSE temp_files
         /\ zip_path' = IF out = "ok" THEN zip.name ELSE NoPath
         /\ caught' = (out # "ok")
         /\ pc' = IF out = "ok" THEN "local" ELSE CreateExceptTarget
    /\ UNCHANGED << cfg, last_local_run, last_ftp_run, now, do_local, do_ftp,
                    local_files, ftp_dir_exists, ftp_files, backups, files,
                    ftp_conn, first, handed, result, pre, removed, stores,
                    failed, init_count >>

\* create_zip while the clock is followed
CreateZip ==
    /\ clock + ZipSeconds <= MaxTime
    /\ CreateZipTo(clock + ZipSeconds)

\* ---------------------------------------------------------- process_local
\* what every raise inside process_local's try block leads to (144-145)
LocalRaise ==
    /\ result' = [result EXCEPT !.local = "fail"]
    /\ failed' = [failed EXCEPT !.local = TRUE]
    /\ last_local_run' = RunStamp(FALSE, last_local_run, clock)
    /\ pc' = LocalExceptTarget
    /\ caught' = (LocalExceptTarget = "finally")
    /\ backups' = << >>                    \* the frame of process_local is gone

\* line 207 false: the local store is not called
SkipLocal ==
    /\ pc = "local"
    /\ ~Invokes(do_local)
    /\ pc' = "ftp"
    /\ UNCHANGED << cfg, clock, last_local_run, last_ftp_run, now, do_local,
                    do_ftp, zip_path, temp_dir_exists, temp_files, local_files,
                    ftp_dir_exists, ftp_files, backups, files, ftp_conn, faults, obs >>

\* lines 207-208, 124-132: call process_local, make the folder, list it
LocalStart ==
    /\ pc = "local"
    /\ Invokes(do_local)
    /\ IF ~cfg.local_enabled
       THEN /\ pc' = "ftp"
            /\ UNCHANGED << backups, handed, pre, result, failed, last_local_run,
                            caught, faults >>
       ELSE /\ handed' = [handed EXCEPT !.local = zip_path]
            /\ pre' = [pre EXCEPT !.local = LocalArchives]
            /\ \/ /\ backups' \in ByMtime(LocalArchives)
                  /\ pc' = "l_rotate"
                  /\ NoFault
                  /\ UNCHANGED << result, failed, last_local_run, caught >>
               \/ LocalRaise /\ Fault      \* mkdir, glob or stat raises
    /\ UNCHANGED << cfg, clock, last_ftp_run, now, do_local, do_ftp, zip_path,
                    temp_dir_exists, temp_files, local_files, ftp_dir_exists,
                    ftp_files, files, ftp_conn, first, creates, removed,
                    stores, init_count >>

\* lines 133-136: one test of the while condition and one iteration
LocalRotate ==
    /\ pc = "l_rotate"
    /\ IF OverLimit(Len(backups), cfg.local_max)
       THEN IF backups = << >>
            THEN /\ LocalRaise             \* pop from empty list: IndexError
                 /\ NoFault
                 /\ UNCHANGED << local_files, removed >>
            ELSE \/ /\ backups' = PopOldest(backups)
                    /\ local_files' = local_files \ {Oldest(backups)}
                    /\ removed' = [removed EXCEPT !.local = @ \cup {Oldest(backups).name}]
                    /\ NoFault
                    /\ UNCHANGED << pc, result, failed, last_local_run, caught >>
                 \/ /\ LocalRaise          \* unlink raises, the file stays
                    /\ Fault
                    /\ UNCHANGED << local_files, removed >>
       ELSE /\ pc' = "l_copy"
            /\ NoFault
            /\ UNCHANGED << backups, local_files, removed, result, failed,
                            last_local_run, caught >>
    /\ UNCHANGED << cfg, clock, last_ftp_run, now, do_local, do_ftp, zip_path,
                    temp_dir_exists, temp_files, ftp_dir_exists, ftp_files,
                    files, ftp_conn, first, creates, handed, pre, stores,
                    init_count >>

\* lines 139-142: copy2 keeps the archive's mtime.  "partial": copy2 raises
\* after it created the destination file (its mtime is the time of writing).
LocalCopy ==
    /\ pc = "l_copy"
    /\ LET src == CHOOSE z \in temp_files : z.name = zip_path IN
       \/ /\ local_files' = PutLocal(local_files, src)
          /\ temp_files' = SourceAfterCopy(temp_files, zip_path)
          /\ last_local_run' = RunStamp(TRUE, last_local_run, clock)
          /\ result' = [result EXCEPT !.local = "ok"]
          /\ stores' = [stores EXCEPT !.local = Counted(@)]
          /\ pc' = "ftp"
          /\ backups' = << >>
          /\ NoFault
          /\ UNCHANGED << failed, caught >>
       \/ /\ LocalRaise /\ Fault
          /\ UNCHANGED << local_files, temp_files, stores >>
       \/ /\ LocalRaise /\ Fault
          /\ local_files' = PutLocal(local_files, [name |-> zip_path, mtime |-> clock])
          /\ UNCHANGED << temp_files, stores >>
    /\ UNCHANGED << cfg, clock, last_ftp_run, now, do_local, do_ftp, zip_path,
                    temp_dir_exists, ftp_dir_exists, ftp_files,
                    files, ftp_conn, first, creates, handed, pre,
                    removed, init_count >>

\* ------------------------------------------------------------ process_ftp
\* what every raise inside process_ftp's try block leads to (183-184); the
\* with statement has closed the connection before the handler runs
FtpRaise ==
    /\ result' = [result EXCEPT !.ftp = "fail"]
    /\ failed' = [failed EXCEPT !.ftp = TRUE]
    /\ last_ftp_run' = RunStamp(FALSE, last_ftp_run, clock)
    /\ ftp_conn' = WithExit(ftp_conn)
    /\ files' = << >>                      \* the frame of process_ftp is gone
    /\ pc' = "finally"

\* line 210 false: the FTP store is not called
SkipFtp ==
    /\ pc = "ftp"
    /\ ~Invokes(do_ftp)
    /\ pc' = "finally"
    /\ UNCHANGED << cfg, clock, last_local_run, last_ftp_run, now, do_local,
                    do_ftp, zip_path, temp_dir_exists, temp_files, local_files,
                    ftp_dir_exists, ftp_files, backups, files, ftp_conn, faults, obs >>

\* lines 210-211, 149-156: call process_ftp, connect
FtpStart ==
    /\ pc = "ftp"
    /\ Invokes(do_ftp)
    /\ IF ~cfg.ftp_enabled
       THEN /\ pc' = "finally"
            /\ UNCHANGED << handed, pre, result, failed, last_ftp_run, ftp_conn,
                            files, faults >>
       ELSE /\ handed' = [handed EXCEPT !.ftp = zip_path]
            /\ pre' = [pre EXCEPT !.ftp = FtpArchives]
            /\ \/ /\ ftp_conn' = TRUE
                  /\ pc' = "f_login"
                  /\ NoFault
                  /\ UNCHANGED << result, failed, last_ftp_run, files >>
               \/ FtpRaise /\ Fault        \* connect raises
    /\ UNCHANGED << cfg, clock, last_local_run, now, do_local, do_ftp, zip_path,
                    temp_dir_exists, temp_files, local_files, ftp_dir_exists,
                    ftp_files, backups, first, creates, caught,
                    removed, stores, init_count >>

\* line 157: authenticate
FtpLogin ==
    /\ pc = "f_login"
    /\ \/ /\ pc' = "f_cwd"
          /\ NoFault
          /\ UNCHANGED << result, failed, last_ftp_run, ftp_conn, files >>
       \/ FtpRaise /\ Fault
    /\ UNCHANGED << cfg, clock, last_local_run, now, do_local, do_ftp, zip_path,
                    temp_dir_exists, temp_files, local_files, ftp_dir_exists,
                    ftp_files, backups, first, creates, caught, handed,
                    pre, removed, stores, init_count >>

\* lines 161-165: cwd; on error_perm (folder missing) mkd and cwd again.
\* Any other error of cwd, and any error of mkd or the second cwd, is raised.
FtpCwd ==
    /\ pc = "f_cwd"
    /\ IF ftp_dir_exists
       THEN \/ /\ pc' = "f_nlst"
               /\ NoFault
               /\ UNCHANGED << ftp_dir_exists, result, failed, last_ftp_run, ftp_conn, files >>
            \/ /\ FtpRaise /\ Fault
               /\ UNCHANGED ftp_dir_exists
       ELSE \/ /\ ftp_dir_exists' = TRUE           \* mkd and cwd succeed
               /\ pc' = "f_nlst"
               /\ NoFault
               /\ UNCHANGED << result, failed, last_ftp_run, ftp_conn, files >>
            \/ /\ FtpRaise /\ Fault                \* mkd raises
               /\ UNCHANGED ftp_dir_exists
            \/ /\ FtpRaise /\ Fault                \* second cwd raises
               /\ ftp_dir_exists' = TRUE
    /\ UNCHANGED << cfg, clock, last_local_run, now, do_local, do_ftp, zip_path,
                    temp_dir_exists, temp_files, local_files, ftp_files,
                    backups, first, creates, caught, handed, pre,
                    removed, stores, init_count >>

\* lines 168-169: list, filter by prefix and suffix, sort by name
FtpList ==
    /\ pc = "f_nlst"
    /\ \/ /\ files' = SortNames(FtpArchives)
          /\ pc' = "f_rotate"
          /\ NoFault
          /\ UNCHANGED << result, failed, last_ftp_run, ftp_conn >>
       \/ FtpRaise /\ Fault
    /\ UNCHANGED << cfg, clock, last_local_run, now, do_local, do_ftp, zip_path,
                    temp_dir_exists, temp_files, local_files, ftp_dir_exists,
                    ftp_files, backups, first, creates, caught, handed, pre,
                    removed, stores, init_count >>

\* lines 171-174: one test of the while condition and one iteration
FtpRotate ==
    /\ pc = "f_rotate"
    /\ IF OverLimit(Len(files), cfg.ftp_max)
       THEN IF files = << >>
            THEN /\ FtpRaise               \* pop from empty list: IndexError
                 /\ NoFault
                 /\ UNCHANGED << ftp_files, removed >>
            ELSE \/ /\ files' = PopOldest(files)
                    /\ ftp_files' = ftp_files \ {Oldest(files)}
                    /\ removed' = [removed EXCEPT !.ftp = @ \cup {Oldest(files)}]
                    /\ NoFault
                    /\ UNCHANGED << pc, result, failed, last_ftp_run, ftp_conn >>
                 \/ /\ FtpRaise            \* delete raises, the file stays
                    /\ Fault
                    /\ UNCHANGED << ftp_files, removed >>
       ELSE /\ pc' = "f_stor"
            /\ NoFault
            /\ UNCHANGED << files, ftp_files, removed, result, failed,
                            last_ftp_run, ftp_conn >>
    /\ UNCHANGED << cfg, clock, last_local_run, now, do_local, do_ftp, zip_path,
                    temp_dir_exists, temp_files, local_files, ftp_dir_exists,
                    backups, first, creates, caught, handed, pre, stores,
                    init_count >>

\* lines 177-181 and the exit of the with block.  "partial": the transfer
\* breaks after the server created the file.
FtpStor ==
    /\ pc = "f_stor"
    /\ \/ /\ ftp_files' = ftp_files \cup {zip_path}
          /\ last_ftp_run' = RunStamp(TRUE, last_ftp_run, clock)
          /\ result' = [result EXCEPT !.ftp = "ok"]
          /\ stores' = [stores EXCEPT !.ftp = Counted(@)]
          /\ ftp_conn' = WithExit(ftp_conn)
          /\ files' = << >>
          /\ pc' = "finally"
          /\ NoFault
          /\ UNCHANGED failed
       \/ /\ FtpRaise /\ Fault             \* open or STOR raises
          /\ UNCHANGED << ftp_files, stores >>
       \/ /\ FtpRaise /\ Fault
          /\ ftp_files' = ftp_files \cup {zip_path}
          /\ UNCHANGED stores
    /\ UNCHANGED << cfg, clock, last_local_run, now, do_local, do_ftp, zip_path,
                    temp_dir_exists, temp_files, local_files, ftp_dir_exists,
                    backups, first, creates, caught, handed, pre,
                    removed, init_count >>

\* ------------------------------------------------------- end of the pass
\* cleanup_temp (115-120): unlink the archive if it exists, remove temp_dir
\* if it exists and is empty
CleanupFiles(S, path) == { z \in S : z.name # path }
CleanupDir(exists, S) == exists /\ S # {}

\* zip_path.exists()
PathExists(S, path) == \E z \in S : z.name = path

CleanupTemp_NoCheck(exists, S, path) ==
    [files |-> CleanupFiles(S, path),
     dir |-> CleanupDir(exists, CleanupFiles(S, path)),
     error |-> ~PathExists(S, path) \/ ~exists]

\* cleanup_temp as a whole: what it leaves of the directory and its entries,
\* and whether it raised.  unlink is reached only for a file that exists,
\* iterdir and rmdir only for a directory that exists.
CleanupTemp(exists, S, path) ==
    LET left == IF PathExists(S, path) THEN CleanupFiles(S, path) ELSE S
    IN  [files |-> left, dir |-> CleanupDir(exists, left), error |-> FALSE]

\* lines 215-218: cleanup_temp runs only for a zip_path that is not None; it
\* is called in the finally clause, outside the try block's handler
Finally ==
    /\ pc = "finally"
    /\ IF zip_path # NoPath
       THEN LET c == CleanupTemp(temp_dir_exists, temp_files, zip_path) IN
            /\ temp_files' = c.files
            /\ temp_dir_exists' = c.dir
            /\ pc' = IF c.error THEN "raised" ELSE "wait"
       ELSE /\ UNCHANGED << temp_files, temp_dir_exists >>
            /\ pc' = "wait"
    /\ UNCHANGED << cfg, clock, last_local_run, last_ftp_run, now, do_local,
                    do_ftp, zip_path, local_files, ftp_dir_exists, ftp_files,
                    backups, files, ftp_conn, faults, obs >>

\* lines 221-228.  With both destinations disabled min(...) is float('inf')
\* and int() raises OverflowError, which nothing in run_loop or main catches.
\* When sleep returns the iteration is over: its locals (reassigned at lines
\* 193-195 and 203 before any use) and the observations of the pass are
\* cleared.
Sleep(until) ==
    /\ clock' = until
    /\ pc' = "eval"
    /\ now' = 0 /\ do_local' = FALSE /\ do_ftp' = FALSE
    /\ zip_path' = NoPath
    /\ first' = FALSE
    /\ creates' = 0 /\ caught' = FALSE
    /\ handed' = [d \in Dest |-> NoPath]
    /\ result' = [d \in Dest |-> None]
    /\ pre' = [d \in Dest |-> {}]
    /\ removed' = [d \in Dest |-> {}]
    /\ UNCHANGED << stores, failed, init_count >>

\* min(next_local, next_ftp) at lines 221-224
WakeTimes == MinNext(NextRun(cfg.local_enabled, last_local_run, cfg.local_interval),
                     NextRun(cfg.ftp_enabled, last_ftp_run, cfg.ftp_interval))

\* the wait logic while the clock is followed
Wait ==
    /\ pc = "wait"
    /\ IF WakeTimes = {}
       THEN /\ pc' = "raised"
            /\ UNCHANGED << clock, now, do_local, do_ftp, zip_path, obs >>
       ELSE \E w \in WakeTimes :
            /\ clock + SecondsUntilNext(w, clock) <= MaxTime
            /\ Sleep(clock + SecondsUntilNext(w, clock))
    /\ UNCHANGED << cfg, last_local_run, last_ftp_run, temp_dir_exists,
                    temp_files, local_files, ftp_dir_exists, ftp_files,
                    backups, files, ftp_conn, faults >>

Next ==
    \/ Eval \/ CreateZip
    \/ SkipLocal \/ LocalStart \/ LocalRotate \/ LocalCopy
    \/ SkipFtp \/ FtpStart \/ FtpLogin \/ FtpCwd \/ FtpList \/ FtpRotate \/ FtpStor
    \/ Finally \/ Wait

Spec == Init /\ [][Next]_vars

\* ------------------------------------------------ the loop run without end
\* For properties of unbounded runs the loop goes on past MaxTime: from
\* there on the clock is no longer followed and reads MaxTime (a deadline
\* that was reached stays reached), and the MaxFaults failures of the
\* environment are counted per pass.  The thread is never stopped: every
\* call returns or raises, so the loop always takes its next step.
CreateZipLate ==
    /\ clock + ZipSeconds > MaxTime
    /\ CreateZipTo(MaxTime)

WaitLate ==
    /\ pc = "wait"
    /\ \E w \in WakeTimes :
         /\ clock + SecondsUntilNext(w, clock) > MaxTime
         /\ Sleep(MaxTime)
    /\ faults' = 0
    /\ UNCHANGED << cfg, last_local_run, last_ftp_run, temp_dir_exists,
                    temp_files, local_files, ftp_dir_exists, ftp_files,
                    backups, files, ftp_conn >>

\* a process started at second 7 with an existing, empty FTP folder and an
\* empty local folder, at least one destination enabled, max = 1
LiveInit ==
    /\ Init
    /\ clock = 7
    /\ cfg.local_enabled \/ cfg.ftp_enabled
    /\ cfg.local_max = 1 /\ cfg.ftp_max = 1
    /\ ftp_dir_exists
    /\ init_count = [d \in Dest |-> 0]

LiveNext == Next \/ CreateZipLate \/ WaitLate

LiveSpec == LiveInit /\ [][LiveNext]_vars /\ WF_vars(LiveNext)

\* =================================================================
\* Properties
\* =================================================================
MaxOf(d) == IF d = "local" THEN cfg.local_max ELSE cfg.ftp_max
LastRun(d) == IF d = "local" THEN last_local_run ELSE last_ftp_run
IsDue(d) == IF d = "local" THEN do_local ELSE do_ftp
Enabled(d) == IF d = "local" THEN cfg.local_enabled ELSE cfg.ftp_enabled
IntervalOf(d) == IF d = "local" THEN cfg.local_interval ELSE cfg.ftp_interval

\* names of the archives retained at a destination, and of those it held
\* when its store began
Retained(d) == IF d = "local" THEN LocalNames ELSE FtpArchives
PreNames(d) == IF d = "local" THEN { e.name : e \in pre.local } ELSE pre.ftp

\* does x come before y by the destination's ordering key
KeyLess(d, x, y) == IF d = "local" THEN x.mtime < y.mtime ELSE NameLess(x, y)
NameOf(d, x) == IF d = "local" THEN x.name ELSE x

\* the names of the m entries of S that come first by the ordering key
FirstByKey(d, S, m) ==
    { NameOf(d, x) : x \in { x \in S : Cardinality({ y \in S : KeyLess(d, y, x) }) < m } }

StorePcs(d) == IF d = "local" THEN {"l_rotate", "l_copy"}
               ELSE {"f_login", "f_cwd", "f_nlst", "f_rotate", "f_stor"}
\* the rotation loop of d's store has ended and the transfer is next
RotationDone(d) == pc = (IF d = "local" THEN "l_copy" ELSE "f_stor")
\* the dispatch of the pass is over
PassDone == pc \in {"finally", "wait"}
Invoked(d) == handed[d] # NoPath

\* C1: with max = N >= 1 and a destination that was empty at start, the
\* number of retained archives is never above N, and while no store of the
\* destination has failed it is exactly min(N, number of successful stores)
\* whenever no store is in progress.
C1_RetentionBound ==
    \A d \in Dest :
        (MaxOf(d) >= 1 /\ init_count[d] = 0) =>
            /\ Cardinality(Retained(d)) <= MaxOf(d)
            /\ (~failed[d] /\ pc \notin StorePcs(d)) =>
                   Cardinality(Retained(d)) = Min(MaxOf(d), stores[d])

C1_Witness ==
    \A d \in Dest :
        /\ MaxOf(d) >= 1 /\ init_count[d] = 0 /\ ~failed[d]
        /\ stores[d] > MaxOf(d)
        /\ Cardinality(Retained(d)) = MaxOf(d)

C3_SlidingWindow ==
    \A d \in Dest :
        (result[d] = "ok" /\ MaxOf(d) >= 1 /\ Cardinality(pre[d]) = MaxOf(d)) =>
            /\ removed[d] = FirstByKey(d, pre[d], 1)
            /\ Cardinality(removed[d]) = 1
            /\ handed[d] \notin PreNames(d)
            /\ Retained(d) = (PreNames(d) \ removed[d]) \cup {handed[d]}

C3_Witness ==
    \A d \in Dest :
        result[d] = "ok" /\ MaxOf(d) = 2 /\ Cardinality(pre[d]) = 2 /\ stores[d] >= 2

\* C4: in a pass where both destinations are due and the archive exists, a
\* failed store of one destination leaves the other invoked, the other's
\* success recorded in its last_run, and the handler of run_loop unused.
C4_FailureIsolation ==
    /\ (PassDone /\ do_local /\ do_ftp /\ zip_path # NoPath) =>
           \A d \in Dest : /\ Invoked(d)
                           /\ result[d] \in {"ok", "fail"}
                           /\ result[d] = "ok" => LastRun(d) = clock /\ LastRun(d) >= now
    /\ caught => \A d \in Dest : ~Invoked(d)

C4_Witness ==
    /\ PassDone /\ do_local /\ do_ftp
    /\ result.local = "fail" /\ result.ftp = "ok"
    /\ last_ftp_run = clock /\ last_local_run < now

\* C5: no step of one destination's store changes the other destination's
\* files or last_run; a store that ends in failure leaves its own last_run
\* as it was; and last_run changes only in the step that completes the
\* destination's own transfer.
C5_Step ==
    /\ pc \in {"local", "l_rotate", "l_copy"} =>
           /\ ftp_files' = ftp_files
           /\ ftp_dir_exists' = ftp_dir_exists
           /\ last_ftp_run' = last_ftp_run
    /\ pc \in {"ftp", "f_login", "f_cwd", "f_nlst", "f_rotate", "f_stor"} =>
           /\ local_files' = local_files
           /\ last_local_run' = last_local_run
    /\ \A d \in Dest : (result'[d] = "fail" /\ result[d] # "fail") => LastRun(d)' = LastRun(d)
    /\ \A d \in Dest :
           LastRun(d)' # LastRun(d) =>
               /\ RotationDone(d)
               /\ result'[d] = "ok"
               /\ handed[d] \in Retained(d)'
               /\ LastRun(d)' = clock

C5_FailedStoreFrame == [][C5_Step]_vars

C5_Witness ==
    /\ result.local = "fail" /\ stores.local >= 1
    /\ removed.local # {}
    /\ last_local_run < now
    /\ result.ftp = "ok"

\* C6: once a pass is over, neither the scratch directory nor any archive
\* file in it exists.
C6_ScratchGone ==
    pc = "wait" => (~temp_dir_exists /\ temp_files = {})

\* C7: in the first pass every enabled destination is due.
C7_NeverRunIsDue ==
    (first /\ pc \notin {"eval", "raised"}) =>
        \A d \in Dest : Enabled(d) => IsDue(d)

\* C8: in every pass, a destination whose store has not yet completed in
\* this pass is due exactly when it is enabled and now - last_run >= interval;
\* its store is invoked only when it is due, and while the store runs
\* now - last_run >= interval.
C8_IntervalGating ==
    \A d \in Dest :
        /\ (pc \notin {"eval", "raised"} /\ result[d] # "ok") =>
               (IsDue(d) <=> (Enabled(d) /\ now - LastRun(d) >= IntervalOf(d)))
        /\ Invoked(d) => IsDue(d)
        /\ pc \in StorePcs(d) => now - LastRun(d) >= IntervalOf(d)

C8_Witness ==
    /\ pc = "wait"
    /\ stores.local >= 1 /\ ~do_local /\ ~Invoked("local")
    /\ now - last_local_run < cfg.local_interval
    /\ do_ftp /\ result.ftp = "fail" /\ stores.ftp = 0

\* C9 as stated: when a pass with a due destination is over, create_zip has
\* been called once and every due destination has been handed the archive.
C9_EveryDueIsHanded ==
    PassDone =>
        /\ (do_local \/ do_ftp) => creates = 1
        /\ \A d \in Dest : IsDue(d) => (Invoked(d) /\ handed[d] = ZipName(now))

\* C9 amended: in a pass with a due destination create_zip is called
\* exactly once; every store that is invoked belongs to a due destination
\* and is handed that call's archive; if the archive was created, every due
\* destination is invoked; in a pass with no due destination there is no
\* create_zip call and no store.
C9_OneArchivePerCycle ==
    /\ creates <= 1
    /\ (pc \notin {"eval", "create", "raised"} /\ (do_local \/ do_ftp)) => creates = 1
    /\ \A d \in Dest :
           Invoked(d) => /\ IsDue(d) /\ Enabled(d)
                         /\ handed[d] = zip_path
                         /\ zip_path = ZipName(now)
                         /\ creates = 1
    /\ (PassDone /\ zip_path # NoPath) => \A d \in Dest : IsDue(d) => Invoked(d)
    /\ (~do_local /\ ~do_ftp) => (creates = 0 /\ \A d \in Dest : ~Invoked(d))

C9_Witness ==
    /\ pc = "wait" /\ do_local /\ do_ftp /\ creates = 1
    /\ zip_path # NoPath
    /\ handed.local = zip_path /\ handed.ftp = zip_path

\* C10: run_loop never raises.
C10_NeverRaises == pc # "raised"

\* C11: when create_zip raises, the pass ends without any store being
\* invoked, without any change to either destination's files or last_run,
\* and the loop goes on: it sleeps and evaluates again, and every
\* destination that was due in the aborted pass satisfies the due test at
\* that next evaluation.
C11_Step ==
    /\ caught' =>
           /\ pc' \in {"finally", "wait"}
           /\ \A d \in Dest : ~Invoked(d)' /\ result'[d] = None
    /\ (caught \/ caught') =>
           /\ local_files' = local_files
           /\ ftp_files' = ftp_files /\ ftp_dir_exists' = ftp_dir_exists
           /\ last_local_run' = last_local_run
           /\ last_ftp_run' = last_ftp_run
           /\ stores' = stores
    /\ (caught /\ pc = "finally") => pc' = "wait"
    /\ (caught /\ pc = "wait") =>
           /\ pc' = "eval"
           /\ clock' >= clock + MinWait
           /\ \A d \in Dest :
                  IsDue(d) => (Enabled(d) /\ clock' - LastRun(d)' >= IntervalOf(d))

C11_CreationFailureAborts == [][C11_Step]_vars

C11_Witness ==
    /\ pc = "eval" /\ ~first
    /\ faults = 1 /\ temp_files # {}
    /\ \A d \in Dest : Enabled(d) /\ IntervalOf(d) = 7 /\ stores[d] = 0 /\ ~failed[d]
    /\ clock - last_local_run >= 7 /\ clock - last_ftp_run >= 7

\* C12: every step that ends a pass is a sleep of max(5, D - now) seconds,
\* D being the least last_run + interval over the enabled destinations,
\* after which the next pass begins; so the next pass begins at least 5
\* seconds after this one began, also when a store of this pass failed.
C12_Deadlines == { LastRun(d) + IntervalOf(d) : d \in { e \in Dest : Enabled(e) } }

C12_Step ==
    pc = "wait" =>
        /\ pc' = "eval"
        /\ \A D \in C12_Deadlines :
               (\A E \in C12_Deadlines : D <= E) =>
                   clock' - clock = (IF D - clock >= 5 THEN D - clock ELSE 5)
        /\ clock' - clock >= 5
        /\ clock' - now >= 5

C12_MinimumWait == [][C12_Step]_vars

\* C13: cleanup_temp called again for an archive it has already removed
\* raises nothing and leaves the scratch directory and its entries as they
\* are; applied twice to the state in which the scheduler calls it, it
\* gives what one application gives.
C13_CleanupIdempotent ==
    /\ (pc = "wait" /\ zip_path # NoPath) =>
           LET again == CleanupTemp(temp_dir_exists, temp_files, zip_path) IN
           /\ ~PathExists(temp_files, zip_path)
           /\ ~again.error
           /\ again.files = temp_files
           /\ again.dir = temp_dir_exists
    /\ (pc = "finally" /\ zip_path # NoPath) =>
           LET once == CleanupTemp(temp_dir_exists, temp_files, zip_path)
               twice == CleanupTemp(once.dir, once.files, zip_path)
           IN  ~once.error /\ twice = once

C13_Witness ==
    /\ pc = "wait" /\ zip_path # NoPath
    /\ ~temp_dir_exists /\ temp_files = {}
    /\ result.ftp = "fail"

\* C14: with max = 0, a store during which no call of the environment
\* failed ends in success, leaves exactly one archive (the new one) at the
\* destination and advances the destination's last_run.
C14_ZeroMaxStores ==
    \A d \in Dest :
        (MaxOf(d) = 0 /\ Enabled(d) /\ faults = 0 /\ result[d] # None) =>
            /\ result[d] = "ok"
            /\ Retained(d) = {handed[d]}
            /\ LastRun(d) = clock

\* C15: for every two archive names the run can produce, and for the names
\* of the 1st at 00:00:00, the 2nd at 00:00:00 and the 15th at 23:59:59,
\* the name of the earlier second is the lexicographically smaller one and
\* conversely; and every archive that the FTP rotation of this pass has
\* deleted was created before every archive still on the server.
C15_CreatedAt(f) == CHOOSE t \in 0..MaxTime : ZipName(t) = f

C15_EveryPair ==
    /\ \A t1, t2 \in 0..MaxTime :
           (t1 < t2) <=> NameLess(ZipName(t1), ZipName(t2))
    /\ \A t1, t2 \in {0, 86400, 14 * 86400 + 86399} :
           (t1 < t2) <=> LexLess(FormatTimestamp(t1), FormatTimestamp(t2))

C15_NameOrderIsTimeOrder ==
    /\ C15_EveryPair
    /\ \A r \in removed.ftp : \A k \in FtpArchives :
           /\ NameLess(r, k)
           /\ C15_CreatedAt(r) < C15_CreatedAt(k)

C15_Witness ==
    /\ pc = "finally" /\ result.ftp = "ok"
    /\ cfg.ftp_max = 2
    /\ \E r \in removed.ftp : \E k \in FtpArchives :
           /\ r.stamp[2] = 1 /\ k.stamp[2] = 2 /\ k # zip_path
    /\ FtpArchives = (pre.ftp \ removed.ftp) \cup {zip_path}

\* C16: a destination's archives change only inside its own store; an
\* archive is deleted only by the rotation loop and only while the new
\* archive is not yet at the destination; an archive is added only after
\* the rotation loop has ended and it is the one handed to the store; and
\* from the start of a store that found at most max >= 1 archives, the
\* number of archives is at most max after every step.
C16_Step ==
    \A d \in Dest :
        /\ Retained(d)' # Retained(d) => pc \in StorePcs(d)
        /\ Retained(d) \ Retained(d)' # {} =>
               /\ pc = (IF d = "local" THEN "l_rotate" ELSE "f_rotate")
               /\ handed[d] \notin Retained(d)
               /\ Retained(d)' \subseteq Retained(d)
        /\ Retained(d)' \ Retained(d) # {} =>
               /\ RotationDone(d)
               /\ Retained(d)' = Retained(d) \cup {handed[d]}
        /\ (Invoked(d)' /\ MaxOf(d) >= 1 /\ Cardinality(PreNames(d)') <= MaxOf(d)) =>
               Cardinality(Retained(d)') <= MaxOf(d)

C16_RotateThenAdd == [][C16_Step]_vars

C16_Witness ==
    /\ pc = "f_stor"
    /\ \A d \in Dest :
           /\ MaxOf(d) = 2 /\ Cardinality(PreNames(d)) = 2
           /\ Cardinality(removed[d]) = 1
    /\ result.local = "ok" /\ Cardinality(LocalNames) = 2
    /\ Cardinality(FtpArchives) = 1

\* C17: whenever the thread is about to dispatch to a store, inside a
\* store, or between the last store and the cleanup, the archive of the
\* cycle is a file of the scratch directory; a file leaves the scratch
\* directory only in the scheduler's cleanup step, and that file is the
\* cycle's archive; and the next evaluation of due-ness follows the wait
\* that follows the cleanup, the archive being gone by then.
C17_InCycle == {"local", "l_rotate", "l_copy", "ftp", "f_login", "f_cwd", "f_nlst",
                "f_rotate", "f_stor"}

C17_Step ==
    /\ pc' \in C17_InCycle =>
           /\ zip_path' # NoPath
           /\ PathExists(temp_files', zip_path')
    /\ (pc' = "finally" /\ pc \in C17_InCycle) => PathExists(temp_files', zip_path')
    /\ temp_files \ temp_files' # {} =>
           /\ pc = "finally" /\ pc' = "wait"
           /\ \A z \in temp_files \ temp_files' : z.name = zip_path
    /\ pc' = "eval" => pc = "wait"
    /\ pc' = "wait" => (pc = "finally" \/ (pc = "eval" /\ ~do_local' /\ ~do_ftp'))
    /\ (pc' = "wait" /\ zip_path' # NoPath) => ~PathExists(temp_files', zip_path')

C17_ArchiveLifetime == [][C17_Step]_vars

C17_Witness ==
    /\ pc = "wait" /\ zip_path # NoPath
    /\ ~PathExists(temp_files, zip_path)
    /\ result.local = "ok" /\ result.ftp = "fail"
    /\ zip_path \in LocalNames /\ zip_path \notin FtpArchives

\* C18: the control connection is open only while the thread is inside
\* process_ftp between connect and the exit of the with block; once the
\* FTP store has returned, with success or failure, it is closed.
C18_ConnectionClosed ==
    /\ ftp_conn => pc \in {"f_login", "f_cwd", "f_nlst", "f_rotate", "f_stor"}
    /\ result.ftp # None => ~ftp_conn
    /\ pc \in {"eval", "create", "wait", "raised"} => ~ftp_conn

C18_Witness ==
    /\ pc = "finally" /\ result.ftp = "fail" /\ ~ftp_conn
    /\ removed.ftp # {}
    /\ stores.ftp >= 1

\* C20: at a destination with max >= 1 that held c archives at start, the
\* number of archives is never below min(c, max - 1), whatever stores have
\* succeeded or failed; and a store whose rotation has deleted something
\* found at least max archives and has left max - 1 of them or more.
C20_NoErosion ==
    \A d \in Dest :
        MaxOf(d) >= 1 =>
            /\ Cardinality(Retained(d)) >= Min(init_count[d], MaxOf(d) - 1)
            /\ removed[d] # {} =>
                   /\ Cardinality(PreNames(d)) >= MaxOf(d)
                   /\ Cardinality(Retained(d)) >= MaxOf(d) - 1

C20_Witness ==
    /\ pc = "wait" /\ ~first /\ faults = 2
    /\ cfg.ftp_max = 2 /\ init_count.ftp = 2 /\ stores.ftp = 0
    /\ result.ftp = "fail" /\ removed.ftp = {}
    /\ Cardinality(pre.ftp) = 1
    /\ Cardinality(FtpArchives) = 1

\* C19 as stated: every destination that is due in a pass has its store
\* invoked in that pass or a later one.
C19_DueIsEventuallyInvoked ==
    \A d \in Dest : (pc = "create" /\ IsDue(d)) ~> Invoked(d)

\* C19 amended: a destination whose store failed is due again in a later
\* pass; and if archive creation succeeds again and again, every
\* destination that is due in a pass has its store invoked in that pass or
\* a later one, whatever the other destination's stores do.
C19_RetryLiveness ==
    \A d \in Dest :
        /\ (result[d] = "fail") ~> (pc = "create" /\ IsDue(d) /\ result[d] = None)
        /\ ([]<>(pc = "local")) => ((pc = "create" /\ IsDue(d)) ~> Invoked(d))

C19_Witness ==
    /\ pc = "l_rotate" /\ ~first /\ Invoked("local")
    /\ failed.local /\ stores.local = 0 /\ result.local = None
    /\ failed.ftp /\ stores.ftp = 0

====
